---- MODULE Spec2Model ----
(***************************************************************************)
(* Model of cellSP's InSTAnT glue (characterize/_instant.py) and of the    *)
(* MAGIC imputation wrapper (preprocessing/_impute.py).                    *)
(*                                                                         *)
(* Each public function is a small sequential program; pc is its position. *)
(* The four functions are checked under four specifications that share the *)
(* variables: SpecRun (run_instant), SpecFsm (analyse_fsm), SpecBic        *)
(* (bicluster_instant) and SpecImp (impute).                               *)
(***************************************************************************)
EXTENDS Integers, Sequences, FiniteSets, TLC

VARIABLES
    pc,           \* position in the function under execution
    exc,          \* exception that ended the call, "none" while it runs
    \* ---- run_instant
    filename,     \* the filename argument / local (None when not given)
    remove_file,  \* argument
    is_sliced,    \* argument
    absZ,         \* 'absZ' in adata_st.uns["transcripts"].columns
    fs,           \* the file system: file name -> content or NoFile
    obj,          \* the Instant object: the file it loaded, None before
    calls,        \* external calls made so far, in order
    ret,          \* the container the call returned
    \* ---- impute
    heap,         \* the arrays: reference -> matrix value
    adata,        \* the AnnData argument: the references its X and raw hold
    X_magic,      \* the AnnData that fit_transform returned
    X_in,         \* the value of adata.X when impute was called
    imp_ret,      \* the object impute returned
    \* ---- the container analyse_fsm and bicluster_instant work on
    uns,          \* adata_st.uns: key -> value, only the keys that exist
    obs_names,    \* adata_st.obs_names, one string per cell
    alpha,        \* argument, in units of 0.001
    \* ---- analyse_fsm
    top_k,        \* argument
    df_topk,      \* the Vertices column of the first top_k cliques
    fsm_i,        \* number of rows of df_topk the loop has visited
    rows,         \* the result rows collected so far
    \* ---- bicluster_instant
    cell_threshold,  \* argument
    cpb_results,     \* the CPB table after the p_val_cond filter
    pp_pvalues,      \* the copy of the p-value tensor
    pval_matrix,     \* cells x retained gene pairs
    bic_n,           \* number of gene pairs the extraction loop has done
    las_input,       \* the matrices handed to LargeAverageSubmatrices.run
    biclustering,    \* the biclusters it returned
    df_results,      \* the bicluster table
    original_length  \* len(df_results) before the current expansion pass

runVars == <<filename, remove_file, is_sliced, absZ, fs, obj, calls, ret>>

impVars == <<heap, adata, X_magic, X_in, imp_ret>>

dataVars == <<uns, obs_names, alpha>>

fsmVars == <<top_k, df_topk, fsm_i, rows>>

bicVars == <<cell_threshold, cpb_results, pp_pvalues, pval_matrix, bic_n,
             las_input, biclustering, df_results, original_length>>

vars == <<pc, exc, runVars, impVars, dataVars, fsmVars, bicVars>>

(***************************************************************************)
(* impute                                                                  *)
(***************************************************************************)
\* matrix values are 0..MaxVal
MaxVal == 3

Values == 0..MaxVal

\* the array objects: the input's X, the array of a raw set earlier, and the
\* array MAGIC allocates for its result
Refs == {"x0", "r0", "m"}

Unallocated == -1

NoRaw == "NoRaw"

NoObject == [X |-> "null"]

ImpIdle ==
    /\ heap = [r \in Refs |-> Unallocated]
    /\ adata = [X |-> "x0", raw |-> NoRaw]
    /\ X_magic = NoObject
    /\ X_in = Unallocated
    /\ imp_ret = "none"

\* lines 18-19: X_magic = magic.MAGIC(...).fit_transform(adata); MAGIC
\* returns a new container with a new array and leaves its input alone
FitTransform ==
    /\ pc = "imp_start"
    /\ \E v \in Values :
         /\ heap' = [heap EXCEPT !["m"] = v]
         /\ X_magic' = [X |-> "m"]
    /\ pc' = "imp_raw"
    /\ UNCHANGED <<exc, adata, X_in, imp_ret, runVars, dataVars, fsmVars, bicVars>>

\* line 20: adata.raw = adata; Raw keeps the array adata.X refers to
\* variant: raw taken from the imputed container
SetRawMutant ==
    /\ pc = "imp_raw"
    /\ adata' = [adata EXCEPT !.raw = X_magic.X]
    /\ pc' = "imp_X"
    /\ UNCHANGED <<exc, heap, X_magic, X_in, imp_ret, runVars, dataVars, fsmVars, bicVars>>

SetRaw ==
    /\ pc = "imp_raw"
    /\ adata' = [adata EXCEPT !.raw = adata.X]
    /\ pc' = "imp_X"
    /\ UNCHANGED <<exc, heap, X_magic, X_in, imp_ret, runVars, dataVars, fsmVars, bicVars>>

\* line 21: adata.X = X_magic.X rebinds X, it does not write into the array
SetX ==
    /\ pc = "imp_X"
    /\ adata' = [adata EXCEPT !.X = X_magic.X]
    /\ pc' = "imp_return"
    /\ UNCHANGED <<exc, heap, X_magic, X_in, imp_ret, runVars, dataVars, fsmVars, bicVars>>

\* line 23: return adata
ReturnAdata ==
    /\ pc = "imp_return"
    /\ imp_ret' = "adata"
    /\ pc' = "imp_done"
    /\ UNCHANGED <<exc, heap, adata, X_magic, X_in, runVars, dataVars, fsmVars, bicVars>>

NextImp ==
    \/ FitTransform
    \/ SetRaw
    \/ SetX
    \/ ReturnAdata

\* C7: on return impute has returned its input object, whose X is the
\* matrix fit_transform produced and whose raw holds the matrix X had when
\* impute was called.
C7_ImputeCopiesBack ==
    pc = "imp_done" =>
        /\ imp_ret = "adata"
        /\ heap[adata.X] = heap[X_magic.X]
        /\ adata.raw # NoRaw
        /\ heap[adata.raw] = X_in

C7_Witness ==
    /\ pc = "imp_done"
    /\ heap[adata.X] # X_in
    /\ heap[adata.raw] = X_in

(***************************************************************************)
(* run_instant                                                             *)
(***************************************************************************)
\* random.randint(0, int(1e7)) draws from 0..MaxRand here
MaxRand == 1

NoFile == [data |-> "absent", done |-> <<>>]

\* Python's None, as the value of the filename argument
None == <<"None", 0, "">>

\* a name the caller passes
UserFile == <<"results_", 0, ".h5ad">>

\* f".cellSP_st_{n}.h5ad"
TempName(n) == <<".cellSP_st_", n, ".h5ad">>

FileNames == {UserFile} \cup {TempName(n) : n \in 0..MaxRand}

\* what a file left by an earlier run holds: another container
OldFile == [data |-> "old", done |-> <<>>]

\* write_h5ad(adata_st, filename): the file now holds the input container
write_h5ad(name) == [fs EXCEPT ![name] = [data |-> "input", done |-> <<>>]]

\* an InSTAnT stage stores its result in the file the object was loaded from
StageWrites(stage) ==
    IF fs[obj] = NoFile THEN fs
    ELSE [fs EXCEPT ![obj].done = Append(@, stage)]

RunIdle ==
    /\ filename = None
    /\ remove_file = TRUE
    /\ is_sliced = TRUE
    /\ absZ = FALSE
    /\ fs = [f \in FileNames |-> NoFile]
    /\ obj = None
    /\ calls = <<>>
    /\ ret = "none"

\* lines 38-40: the default name is drawn and the container is written,
\* both inside the `if filename == None` block
SaveInput ==
    /\ pc = "run_start"
    /\ IF filename = None
       THEN \E n \in 0..MaxRand :
              /\ filename' = TempName(n)
              /\ fs' = write_h5ad(TempName(n))
              /\ calls' = Append(calls, "write_h5ad")
       ELSE UNCHANGED <<filename, fs, calls>>
    /\ pc' = "run_load"
    /\ UNCHANGED <<exc, remove_file, is_sliced, absZ, obj, ret, impVars, dataVars, fsmVars, bicVars>>

\* lines 41-42: Instant(...) and obj.load_preprocessed_data(filename);
\* a missing file ends the call with the reader's exception
LoadData ==
    /\ pc = "run_load"
    /\ calls' = Append(calls, "load_preprocessed_data")
    /\ IF fs[filename] = NoFile
       THEN /\ pc' = "raised"
            /\ exc' = "FileNotFoundError"
            /\ UNCHANGED obj
       ELSE /\ pc' = "run_pp"
            /\ obj' = filename
            /\ UNCHANGED exc
    /\ UNCHANGED <<filename, remove_file, is_sliced, absZ, fs, ret, impVars, dataVars, fsmVars, bicVars>>

\* lines 43-49: which proximal-pairs test is run
\* variant: is_sliced ignored
PPVariantMutant ==
    IF absZ THEN "run_ProximalPairs3D_slice" ELSE "run_ProximalPairs"

PPVariant ==
    IF absZ
    THEN IF is_sliced THEN "run_ProximalPairs3D_slice"
                      ELSE "run_ProximalPairs3D"
    ELSE "run_ProximalPairs"

ProximalPairs ==
    /\ pc = "run_pp"
    /\ calls' = Append(calls, PPVariant)
    /\ fs' = StageWrites(PPVariant)
    /\ pc' = "run_coloc"
    /\ UNCHANGED <<exc, filename, remove_file, is_sliced, absZ, obj, ret, impVars, dataVars, fsmVars, bicVars>>

\* line 50
GlobalColocalization ==
    /\ pc = "run_coloc"
    /\ calls' = Append(calls, "run_GlobalColocalization")
    /\ fs' = StageWrites("run_GlobalColocalization")
    /\ pc' = "run_fsm"
    /\ UNCHANGED <<exc, filename, remove_file, is_sliced, absZ, obj, ret, impVars, dataVars, fsmVars, bicVars>>

\* line 51
Fsm ==
    /\ pc = "run_fsm"
    /\ calls' = Append(calls, "run_fsm")
    /\ fs' = StageWrites("run_fsm")
    /\ pc' = "run_read"
    /\ UNCHANGED <<exc, filename, remove_file, is_sliced, absZ, obj, ret, impVars, dataVars, fsmVars, bicVars>>

\* line 52: adata_st = read_h5ad(filename), a new container
ReadBack ==
    /\ pc = "run_read"
    /\ calls' = Append(calls, "read_h5ad")
    /\ IF fs[filename] = NoFile
       THEN /\ pc' = "raised"
            /\ exc' = "FileNotFoundError"
            /\ UNCHANGED ret
       ELSE /\ pc' = "run_rm"
            /\ ret' = [object |-> "read", content |-> fs[filename]]
            /\ UNCHANGED exc
    /\ UNCHANGED <<filename, remove_file, is_sliced, absZ, fs, obj, impVars, dataVars, fsmVars, bicVars>>

\* lines 53-55: subprocess.run(["rm", filename]) and return
\* variant: the file is removed whatever remove_file says
RemoveFileMutant ==
    /\ pc = "run_rm"
    /\ fs' = [fs EXCEPT ![filename] = NoFile]
    /\ calls' = Append(calls, "rm")
    /\ pc' = "run_done"
    /\ UNCHANGED <<exc, filename, remove_file, is_sliced, absZ, obj, ret, impVars, dataVars, fsmVars, bicVars>>

RemoveFile ==
    /\ pc = "run_rm"
    /\ IF remove_file
       THEN /\ fs' = [fs EXCEPT ![filename] = NoFile]
            /\ calls' = Append(calls, "rm")
       ELSE UNCHANGED <<fs, calls>>
    /\ pc' = "run_done"
    /\ UNCHANGED <<exc, filename, remove_file, is_sliced, absZ, obj, ret, impVars, dataVars, fsmVars, bicVars>>

NextRun ==
    \/ SaveInput
    \/ LoadData
    \/ ProximalPairs
    \/ GlobalColocalization
    \/ Fsm
    \/ ReadBack
    \/ RemoveFile

\* position of the first occurrence of a call in the trace, 0 if absent
RECURSIVE IndexOf(_, _, _)
IndexOf(s, x, k) ==
    IF k > Len(s) THEN 0
    ELSE IF s[k] = x THEN k ELSE IndexOf(s, x, k + 1)

Called(x) == IndexOf(calls, x, 1) > 0

IsStage(x) == x \notin {"write_h5ad", "rm"}

\* C4: whenever the Instant object loads the working file, this call has
\* saved the input container to that file before, for a default and for a
\* caller-supplied filename alike.
C4_SavedBeforeLoad ==
    obj # None =>
        /\ Called("write_h5ad")
        /\ IndexOf(calls, "write_h5ad", 1)
             < IndexOf(calls, "load_preprocessed_data", 1)

\* C5: after a normal return the working file is gone iff remove_file is
\* True, rm ran iff remove_file and only after the read-back, and with
\* remove_file False the file is still there.
C5_RemovedIffAsked ==
    pc = "run_done" =>
        /\ (fs[filename] = NoFile) <=> remove_file
        /\ Called("rm") <=> remove_file
        /\ Called("rm") =>
             IndexOf(calls, "read_h5ad", 1) < IndexOf(calls, "rm", 1)
        /\ ret.content.data # "absent"

C5_Witness ==
    /\ pc = "run_done"
    /\ remove_file
    /\ filename = UserFile
    /\ fs[filename] = NoFile

\* C8: a normal return has run load_preprocessed_data, exactly one
\* proximal-pairs test (3D_slice with absZ and is_sliced, 3D with absZ and
\* not is_sliced, the 2D test without absZ), run_GlobalColocalization,
\* run_fsm and the read-back, in this order, and returns the container that
\* was read back, which holds the three stages' results.
C8_StageOrder ==
    pc = "run_done" =>
        /\ SelectSeq(calls, IsStage) =
             << "load_preprocessed_data",
                IF absZ /\ is_sliced THEN "run_ProximalPairs3D_slice"
                ELSE IF absZ THEN "run_ProximalPairs3D"
                ELSE "run_ProximalPairs",
                "run_GlobalColocalization", "run_fsm", "read_h5ad" >>
        /\ ret.object = "read"
        /\ ret.content.done = SubSeq(SelectSeq(calls, IsStage), 2, 4)

C8_Witness ==
    /\ pc = "run_done"
    /\ absZ
    /\ ~is_sliced
    /\ Called("run_ProximalPairs3D")

(***************************************************************************)
(* Strings, p-values and the container                                     *)
(***************************************************************************)
\* A string is the sequence of its characters.

\* str.split(sep): the pieces between the separators, always at least one
RECURSIVE SplitAcc(_, _, _, _, _)
SplitAcc(s, sep, k, cur, out) ==
    IF k > Len(s) THEN Append(out, cur)
    ELSE IF s[k] = sep
         THEN SplitAcc(s, sep, k + 1, <<>>, Append(out, cur))
         ELSE SplitAcc(s, sep, k + 1, Append(cur, s[k]), out)

Split(s, sep) == SplitAcc(s, sep, 1, <<>>, <<>>)

\* sep.join(l)
RECURSIVE JoinFrom(_, _, _)
JoinFrom(l, sep, k) ==
    IF k > Len(l) THEN <<>>
    ELSE IF k = Len(l) THEN l[k]
    ELSE l[k] \o <<sep>> \o JoinFrom(l, sep, k + 1)

Join(l, sep) == JoinFrom(l, sep, 1)

\* list.index(x): the first position of x (positions count from 1 here)
RECURSIVE ListIndexFrom(_, _, _)
ListIndexFrom(l, x, k) ==
    IF l[k] = x THEN k ELSE ListIndexFrom(l, x, k + 1)

ListIndex(l, x) == ListIndexFrom(l, x, 1)

\* p-values are counted in units of 0.001, so 1.0 is 1000; NaN is a float
\* that compares False with everything, itself included
NaN == -1

FloatLt(a, b) == a # NaN /\ b # NaN /\ a < b

FloatLe(a, b) == a # NaN /\ b # NaN /\ a <= b

FloatEq(a, b) == a # NaN /\ b # NaN /\ a = b

\* uns['geneList']
GeneList == << <<"A">>, <<"B">>, <<"C">> >>

Digits == <<"1", "2", "3", "4", "5", "6", "7", "8", "9">>

\* obs_names of a container of n cells
ObsNames(n) == [c \in 1..n |-> <<"c", Digits[c]>>]

\* a cell's gene x gene p-value matrix, symmetric with the given entries
SymMatrix(ab, ac, bc) ==
    << <<1000, ab, ac>>, <<ab, 1000, bc>>, <<ac, bc, 1000>> >>

DataIdle ==
    /\ uns = [geneList |-> GeneList]
    /\ obs_names = <<>>
    /\ alpha = 1

(***************************************************************************)
(* analyse_fsm                                                             *)
(***************************************************************************)
\* number of cells of the container analyse_fsm is given
FsmCells == 6

\* top_k ranges over 0..MaxTopK
MaxTopK == 2

\* line 83: a clique is reported when it has this many cells
MinCells == 5

\* the cells' matrices analyse_fsm is tried on
FsmMatrices ==
    { SymMatrix(1, 1, 1), SymMatrix(10, 1, 100) }

\* uns[f"nV{n_vertices}_cliques"].Vertices, best clique first
CliqueTables ==
    { << <<"A", ",", "B">>, <<"B", ",", "C">>, <<"A", ",", "C">> >>,
      << <<"A", ",", "B", ",", "C">>, <<"A", ",", "B">> >>,
      << <<"C", ",", "B">>, <<"C", ",", "A", ",", "B">> >> }

FsmIdle ==
    /\ top_k = 0
    /\ df_topk = <<>>
    /\ fsm_i = 0
    /\ rows = <<>>

\* .iloc[:top_k] for top_k >= 0
Iloc(t, k) == SubSeq(t, 1, IF k < Len(t) THEN k ELSE Len(t))

\* lines 74-76
FsmStart ==
    /\ pc = "fsm_start"
    /\ df_topk' = Iloc(uns.cliques, top_k)
    /\ rows' = <<>>
    /\ fsm_i' = 0
    /\ pc' = "fsm_loop"
    /\ UNCHANGED <<exc, top_k, runVars, impVars, dataVars, bicVars>>

\* line 78
GeneIndexes(vertices) ==
    LET names == Split(vertices, ",") IN
    [m \in 1..Len(names) |-> ListIndex(uns.geneList, names[m])]

\* line 81: all p-values of combinations(gene_indexes, 2) are below alpha
AllBelow(cell, gene_indexes) ==
    \A a \in 1..Len(gene_indexes) : \A b \in (a + 1)..Len(gene_indexes) :
        FloatLt(cell[gene_indexes[a]][gene_indexes[b]], alpha)

\* lines 79-82: the ids of the cells that pass, in the tensor's order
RECURSIVE CollectUids(_, _)
CollectUids(gene_indexes, n) ==
    IF n = 0 THEN <<>>
    ELSE LET before == CollectUids(gene_indexes, n - 1) IN
         IF AllBelow(uns.pvalues[n], gene_indexes)
         THEN Append(before, obs_names[n])
         ELSE before

\* line 83
\* variant: more than MinCells cells required
KeepCliqueMutant(uids) == Len(uids) > MinCells

KeepClique(uids) == Len(uids) >= MinCells

\* lines 77-84: one iteration of the loop over df_topk
FsmClique ==
    /\ pc = "fsm_loop"
    /\ fsm_i < Len(df_topk)
    /\ LET vertices == df_topk[fsm_i + 1]
           uids == CollectUids(GeneIndexes(vertices), Len(uns.pvalues))
       IN rows' = IF KeepClique(uids)
                  THEN Append(rows, [genes |-> vertices,
                                     ncells |-> Len(uids),
                                     uIDs |-> Join(uids, ",")])
                  ELSE rows
    /\ fsm_i' = fsm_i + 1
    /\ UNCHANGED <<pc, exc, top_k, df_topk, runVars, impVars, dataVars, bicVars>>

\* lines 85-87
FsmStore ==
    /\ pc = "fsm_loop"
    /\ fsm_i = Len(df_topk)
    /\ uns' = ("instant_fsm" :> rows) @@ uns
    /\ pc' = "fsm_done"
    /\ UNCHANGED <<exc, obs_names, alpha, fsmVars, runVars, impVars, bicVars>>

NextFsm ==
    \/ FsmStart
    \/ FsmClique
    \/ FsmStore

\* the cells whose p-values between any two distinct genes of the clique
\* are all strictly below alpha
GenesOf(vertices) == {g \in 1..Len(GeneList) :
                        \E m \in 1..Len(Split(vertices, ",")) :
                            Split(vertices, ",")[m] = GeneList[g]}

Qualifying(vertices) ==
    {n \in 1..Len(obs_names) :
        \A g \in GenesOf(vertices) : \A h \in GenesOf(vertices) \ {g} :
            uns.pvalues[n][g][h] # NaN /\ uns.pvalues[n][g][h] < alpha}

\* the cliques analyse_fsm has to report
Reported ==
    {k \in 1..Len(uns.cliques) :
        k <= top_k /\ Cardinality(Qualifying(uns.cliques[k])) >= 5}

\* C9: uns['instant_fsm'] has one row per clique that is among the first
\* top_k and has at least 5 qualifying cells, in the clique table's order;
\* a row's genes is the clique's Vertices string, its #cells is the number
\* of ids in uIDs, and the ids are the qualifying cells in obs_names order.
C9_FsmTable ==
    pc = "fsm_done" =>
        LET t == uns.instant_fsm IN
        /\ Len(t) = Cardinality(Reported)
        /\ \A r \in 1..Len(t) :
             \E k \in Reported :
                LET ids == Split(t[r].uIDs, ",")
                    q == Qualifying(uns.cliques[k])
                IN /\ Cardinality({j \in Reported : j < k}) = r - 1
                   /\ t[r].genes = uns.cliques[k]
                   /\ t[r].ncells = Len(ids)
                   /\ Len(ids) = Cardinality(q)
                   /\ \A n \in q :
                        ids[Cardinality({j \in q : j < n}) + 1] = obs_names[n]

C9_Witness ==
    /\ pc = "fsm_done"
    /\ Len(df_topk) = 2
    /\ Len(uns.instant_fsm) = 2
    /\ uns.instant_fsm[1].ncells = 6
    /\ uns.instant_fsm[2].ncells = 5

(***************************************************************************)
(* bicluster_instant                                                       *)
(***************************************************************************)
\* number of cells of the container bicluster_instant is given
BicCells == 3

\* LargeAverageSubmatrices returns at most this many biclusters
MaxBiclusters == 2

\* line 118: np.ones, 1.0 in units of 0.001
One == 1000

\* -log10(0.0)
Inf == 99

\* the tensors bicluster_instant is tried on: symmetric matrices, one cell
\* with an asymmetric matrix, one cell with a NaN entry
BicMatrix(c) == IF c % 2 = 1 THEN SymMatrix(1, 10, 100)
                ELSE SymMatrix(100, 0, 1)

AsymMatrix == << <<1000, 1, 10>>, <<100, 1000, 1>>, <<10, 1, 1000>> >>

NaNMatrix == SymMatrix(1, NaN, 10)

BicTensors ==
    { [c \in 1..BicCells |-> BicMatrix(c)],
      [c \in 1..BicCells |-> IF c = 2 THEN AsymMatrix ELSE BicMatrix(c)],
      [c \in 1..BicCells |-> IF c = BicCells THEN NaNMatrix ELSE BicMatrix(c)] }

\* uns['cpb_results']: the gene pairs and their p_val_cond
CpbTable(p) ==
    << [gene_id1 |-> <<"A">>, gene_id2 |-> <<"B">>, p_val_cond |-> p[1]],
       [gene_id1 |-> <<"A">>, gene_id2 |-> <<"C">>, p_val_cond |-> p[2]],
       [gene_id1 |-> <<"B">>, gene_id2 |-> <<"C">>, p_val_cond |-> p[3]],
       [gene_id1 |-> <<"C">>, gene_id2 |-> <<"B">>, p_val_cond |-> p[4]] >>

CpbTables == { CpbTable(<<1, 1, 1, 1>>), CpbTable(<<10, 1, 1, 1>>),
               CpbTable(<<1, 10, 10, 1>>) }

BicIdle ==
    /\ cell_threshold = 0
    /\ cpb_results = <<>>
    /\ pp_pvalues = <<>>
    /\ pval_matrix = <<>>
    /\ bic_n = 0
    /\ las_input = <<>>
    /\ biclustering = <<>>
    /\ df_results = <<>>
    /\ original_length = 0

\* line 112: reset_index() puts the row labels into the column 'index'
ResetIndex(t) ==
    [k \in 1..Len(t) |->
        [index |-> k, gene_id1 |-> t[k].gene_id1,
         gene_id2 |-> t[k].gene_id2, p_val_cond |-> t[k].p_val_cond]]

\* line 113: the rows with p_val_cond <= alpha, labels kept
PassesAlpha(row) == FloatLe(row.p_val_cond, alpha)

\* lines 111-122; without the CPB table the call ends at line 115
\* variant: a missing CPB table is taken as an empty one
BicStartMutant ==
    /\ pc = "bic_start"
    /\ cpb_results' = IF "cpb_results" \in DOMAIN uns
                      THEN SelectSeq(ResetIndex(uns.cpb_results), PassesAlpha)
                      ELSE <<>>
    /\ pval_matrix' = [c \in 1..Len(obs_names) |->
                          [n \in 1..Len(cpb_results') |-> One]]
    /\ pp_pvalues' = uns.pvalues
    /\ bic_n' = 0
    /\ pc' = "bic_extract"
    /\ UNCHANGED <<exc, cell_threshold, las_input, biclustering, df_results,
                   original_length, dataVars, runVars, impVars, fsmVars>>

BicStart ==
    /\ pc = "bic_start"
    /\ IF "cpb_results" \in DOMAIN uns
       THEN /\ cpb_results' =
                 SelectSeq(ResetIndex(uns.cpb_results), PassesAlpha)
            /\ pval_matrix' = [c \in 1..Len(obs_names) |->
                                  [n \in 1..Len(cpb_results') |-> One]]
            /\ pp_pvalues' = uns.pvalues
            /\ bic_n' = 0
            /\ pc' = "bic_extract"
            /\ UNCHANGED exc
       ELSE /\ exc' = "ValueError"
            /\ pc' = "raised"
            /\ UNCHANGED <<cpb_results, pval_matrix, pp_pvalues, bic_n>>
    /\ UNCHANGED <<cell_threshold, las_input, biclustering, df_results,
                   original_length, dataVars, runVars, impVars, fsmVars>>

\* line 123: n of cpb_results.reset_index().iterrows() is the position of
\* the row in the filtered table, not the label it kept from line 112
\* variant: the label kept from line 112 used as the column
ColumnOfMutant(n) == cpb_results[n].index

ColumnOf(n) == n

\* line 129: assert cell[index1, index2] == cell[index1][index2]
AssertHolds(cell, index1, index2) ==
    FloatEq(cell[index1][index2], cell[index1][index2])

\* lines 123-130: one gene pair; the cells before the first one whose
\* assertion fails get their entry, the call ends at that cell
BicExtract ==
    /\ pc = "bic_extract"
    /\ bic_n < Len(cpb_results)
    /\ LET n == bic_n + 1
           index1 == ListIndex(uns.geneList, cpb_results[n].gene_id1)
           index2 == ListIndex(uns.geneList, cpb_results[n].gene_id2)
           failing == {pos \in 1..Len(pp_pvalues) :
                          ~AssertHolds(pp_pvalues[pos], index1, index2)}
           written == {pos \in 1..Len(pp_pvalues) :
                          \A f \in failing : pos < f}
       IN /\ pval_matrix' =
                [pos \in 1..Len(pval_matrix) |->
                    IF pos \in written
                    THEN [pval_matrix[pos] EXCEPT
                            ![ColumnOf(n)] = pp_pvalues[pos][index1][index2]]
                    ELSE pval_matrix[pos]]
          /\ IF failing = {}
             THEN /\ bic_n' = n
                  /\ UNCHANGED <<pc, exc>>
             ELSE /\ exc' = "AssertionError"
                  /\ pc' = "raised"
                  /\ UNCHANGED bic_n
    /\ UNCHANGED <<cell_threshold, cpb_results, pp_pvalues, las_input,
                   biclustering, df_results, original_length,
                   dataVars, runVars, impVars, fsmVars>>

\* np.log10 of a power of ten given in units of 0.001
RECURSIVE Log10(_)
Log10(p) == IF p < 10 THEN 0 ELSE 1 + Log10(p \div 10)

\* line 131: -np.log10(x), x = p / 1000
NegLog10(p) == IF p = 0 THEN Inf ELSE 3 - Log10(p)

\* the biclusters the search may return for a matrix of the given shape
Biclusters(n_rows, n_cols) ==
    {[rows |-> 1..r, cols |-> 1..c] :
        r \in 1..n_rows, c \in {n_cols, 2} \cap 1..n_cols}

LasResults(n_rows, n_cols) ==
    UNION {[1..len -> Biclusters(n_rows, n_cols)] : len \in 0..MaxBiclusters}

\* lines 131-136: the matrix is transformed and handed to the search
BicRun ==
    /\ pc = "bic_extract"
    /\ bic_n = Len(cpb_results)
    /\ pval_matrix' = [c \in 1..Len(pval_matrix) |->
                          [n \in 1..Len(pval_matrix[c]) |->
                              NegLog10(pval_matrix[c][n])]]
    /\ las_input' = Append(las_input, pval_matrix')
    /\ biclustering' \in LasResults(Len(obs_names), Len(cpb_results))
    /\ pc' = "bic_table"
    /\ UNCHANGED <<exc, cell_threshold, cpb_results, pp_pvalues, bic_n,
                   df_results, original_length,
                   dataVars, runVars, impVars, fsmVars>>

\* the ids of a set of cells, in obs_names order
RECURSIVE NamesOf(_, _)
NamesOf(cells, n) ==
    IF n = 0 THEN <<>>
    ELSE IF n \in cells THEN Append(NamesOf(cells, n - 1), obs_names[n])
    ELSE NamesOf(cells, n - 1)

\* line 154: a row of the bicluster table
TableRow(cols, cells) ==
    [gene_pairs |-> cols,
     uIDs |-> Join(NamesOf(cells, Len(obs_names)), ","),
     ncells |-> Cardinality(cells)]

\* _expand_bicluster_rows: the rows of a bicluster, grown
ExpandedRows(bicluster) ==
    {1..r : r \in Cardinality(bicluster.rows)..Len(obs_names)}

\* line 148
HasPairs(bicluster) == Cardinality(bicluster.cols) > 2

\* lines 137-157: the table gets a row for each bicluster of more than two
\* gene pairs, with the rows _expand_bicluster_rows gave it
BicTable ==
    /\ pc = "bic_table"
    /\ \E size \in [1..Len(biclustering) -> 1..Len(obs_names)] :
         LET grown == [b \in 1..Len(biclustering) |-> 1..size[b]] IN
         /\ \A b \in 1..Len(biclustering) :
              grown[b] \in IF HasPairs(biclustering[b])
                           THEN ExpandedRows(biclustering[b])
                           ELSE {biclustering[b].rows}
         /\ biclustering' =
              [b \in 1..Len(biclustering) |->
                  [rows |-> grown[b], cols |-> biclustering[b].cols]]
         /\ df_results' =
              LET kept == SelectSeq(biclustering', HasPairs) IN
              [r \in 1..Len(kept) |-> TableRow(kept[r].cols, kept[r].rows)]
    /\ pc' = "bic_expand"
    /\ UNCHANGED <<exc, cell_threshold, cpb_results, pp_pvalues, pval_matrix,
                   bic_n, las_input, original_length,
                   dataVars, runVars, impVars, fsmVars>>

\* the cells a table row lists
CellsOf(row) ==
    {n \in 1..Len(obs_names) :
        \E m \in 1..Len(Split(row.uIDs, ",")) :
            Split(row.uIDs, ",")[m] = obs_names[n]}

\* a sequence without its k-th element
Without(t, k) == SubSeq(t, 1, k - 1) \o SubSeq(t, k + 1, Len(t))

\* _expand_bicluster: one pass leaves the table alone, grows the cell set
\* of one bicluster, or combines two biclusters into one
ExpandOutcomes(t) ==
    {t}
    \cup {[t EXCEPT ![r] = TableRow(t[r].gene_pairs,
                                    CellsOf(t[r]) \cup {t[r].ncells + 1})] :
            r \in {q \in 1..Len(t) : t[q].ncells < Len(obs_names)}}
    \cup {Without([t EXCEPT ![p[1]] =
                      TableRow(t[p[1]].gene_pairs \cup t[p[2]].gene_pairs,
                               CellsOf(t[p[1]]) \cup CellsOf(t[p[2]]))],
                   p[2]) :
            p \in {q \in (1..Len(t)) \X (1..Len(t)) : q[1] < q[2]}}

\* lines 159-163: one pass of the loop and its exit test
ExpandPass ==
    /\ pc = "bic_expand"
    /\ original_length' = Len(df_results)
    /\ df_results' \in ExpandOutcomes(df_results)
    /\ pc' = IF Len(df_results') = original_length'
             THEN "bic_store" ELSE "bic_expand"
    /\ UNCHANGED <<exc, cell_threshold, cpb_results, pp_pvalues, pval_matrix,
                   bic_n, las_input, biclustering,
                   dataVars, runVars, impVars, fsmVars>>

\* line 164
EnoughCells(row) == Len(Split(row.uIDs, ",")) > cell_threshold

\* lines 164-167
BicStore ==
    /\ pc = "bic_store"
    /\ df_results' = SelectSeq(df_results, EnoughCells)
    /\ uns' = ("instant_biclustering" :> df_results') @@ uns
    /\ pc' = "bic_done"
    /\ UNCHANGED <<exc, obs_names, alpha, cell_threshold, cpb_results,
                   pp_pvalues, pval_matrix, bic_n, las_input, biclustering,
                   original_length, runVars, impVars, fsmVars>>

NextBic ==
    \/ BicStart
    \/ BicExtract
    \/ BicRun
    \/ BicTable
    \/ ExpandPass
    \/ BicStore

\* C1: a call on a container without 'cpb_results' raises ValueError at
\* once: its first step ends the call, the biclustering routine has not
\* been invoked, and no key of uns was added or changed.
C1_MissingCpbRaises ==
    /\ [][(pc = "bic_start" /\ "cpb_results" \notin DOMAIN uns) =>
            (pc' = "raised" /\ exc' = "ValueError" /\ uns' = uns)]_vars
    /\ [](exc = "ValueError" =>
            (las_input = <<>> /\ "instant_biclustering" \notin DOMAIN uns))

C1_Witness ==
    /\ pc = "raised"
    /\ exc = "ValueError"
    /\ "cpb_results" \notin DOMAIN uns

\* C2: the expansion loop exits after a pass exactly when that pass left
\* the bicluster table as it was.
C2_ExitIffNoChange ==
    [][pc = "bic_expand" =>
         ((df_results' = df_results) <=> (pc' = "bic_store"))]_vars

\* C3: when the extraction of a gene pair has completed without an
\* assertion failure, every cell's p-value matrix is symmetric at that pair.
C3_AssertChecksSymmetry ==
    exc = "none" =>
        \A n \in 1..bic_n : \A pos \in 1..Len(pp_pvalues) :
            LET index1 == CHOOSE g \in 1..Len(GeneList) :
                              GeneList[g] = cpb_results[n].gene_id1
                index2 == CHOOSE g \in 1..Len(GeneList) :
                              GeneList[g] = cpb_results[n].gene_id2
            IN pp_pvalues[pos][index1][index2]
                 = pp_pvalues[pos][index2][index1]

\* C6: the table stored in uns['instant_biclustering'] holds exactly the
\* expanded biclusters that list at least cell_threshold cell ids.
AtLeastThreshold(row) == row.ncells >= cell_threshold

C6_KeepsAtLeastThreshold ==
    [][pc = "bic_store" =>
         uns'.instant_biclustering = SelectSeq(df_results, AtLeastThreshold)]_vars

\* the rows of the CPB table with p_val_cond <= alpha
Retained ==
    {k \in 1..Len(uns.cpb_results) : uns.cpb_results[k].p_val_cond <= alpha}

\* the n-th of them in the table's order
NthRetained(n) ==
    CHOOSE k \in Retained : Cardinality({j \in Retained : j < k}) = n - 1

GeneIndex(gene) == CHOOSE g \in 1..Len(GeneList) : GeneList[g] = gene

\* -log10 of the p-values of the model, by table
MinusLog10(p) ==
    CASE p = 1000 -> 0 [] p = 100 -> 1 [] p = 10 -> 2 [] p = 1 -> 3
      [] p = 0 -> Inf

\* C10: the matrix handed to the biclustering routine has a row per cell
\* and a column per CPB pair with p_val_cond <= alpha, in the table's order;
\* entry [c][n] is -log10 of cell c's p-value at the gene indices of the
\* n-th retained pair; the p-value tensor stored in uns never changes.
C10_MatrixHanded ==
    /\ [](las_input # <<>> =>
            LET m == las_input[1] IN
            /\ Len(las_input) = 1
            /\ Len(m) = Len(obs_names)
            /\ \A c \in 1..Len(m) :
                 /\ Len(m[c]) = Cardinality(Retained)
                 /\ \A n \in 1..Len(m[c]) :
                      LET pair == uns.cpb_results[NthRetained(n)] IN
                      m[c][n] = MinusLog10(
                          uns.pvalues[c][GeneIndex(pair.gene_id1)]
                                        [GeneIndex(pair.gene_id2)]))
    /\ [][uns'.pvalues = uns.pvalues]_vars

C10_Witness ==
    /\ las_input # <<>>
    /\ Len(las_input[1][1]) = 3
    /\ uns.cpb_results[1].p_val_cond > alpha
    /\ \E c \in 1..Len(obs_names) : las_input[1][c][1] = Inf

(***************************************************************************)
(* The specifications: one call of one function, from every input.         *)
(***************************************************************************)
InitRun ==
    /\ BicIdle
    /\ ImpIdle
    /\ DataIdle
    /\ FsmIdle
    /\ pc = "run_start"
    /\ exc = "none"
    /\ filename \in {None, UserFile}
    /\ remove_file \in BOOLEAN
    /\ is_sliced \in BOOLEAN
    /\ absZ \in BOOLEAN
    /\ fs \in [FileNames -> {NoFile, OldFile}]
    /\ obj = None
    /\ calls = <<>>
    /\ ret = "none"

SpecRun == InitRun /\ [][NextRun]_vars

InitImp ==
    /\ BicIdle
    /\ RunIdle
    /\ DataIdle
    /\ FsmIdle
    /\ pc = "imp_start"
    /\ exc = "none"
    /\ \E v \in Values, r \in Values \cup {Unallocated} :
         /\ heap = [x0 |-> v, r0 |-> r, m |-> Unallocated]
         /\ adata = [X |-> "x0", raw |-> IF r = Unallocated THEN NoRaw ELSE "r0"]
         /\ X_in = v
    /\ X_magic = NoObject
    /\ imp_ret = "none"

SpecImp == InitImp /\ [][NextImp]_vars

InitFsm ==
    /\ BicIdle
    /\ RunIdle
    /\ ImpIdle
    /\ pc = "fsm_start"
    /\ exc = "none"
    /\ uns \in [geneList : {GeneList},
                pvalues : [1..FsmCells -> FsmMatrices],
                cliques : CliqueTables]
    /\ obs_names = ObsNames(FsmCells)
    /\ alpha \in {1, 10, 100}
    /\ top_k \in 0..MaxTopK
    /\ df_topk = <<>>
    /\ fsm_i = 0
    /\ rows = <<>>

SpecFsm == InitFsm /\ [][NextFsm]_vars

InitBic ==
    /\ RunIdle
    /\ ImpIdle
    /\ FsmIdle
    /\ pc = "bic_start"
    /\ exc = "none"
    /\ \E tensor \in BicTensors :
         \/ uns = [geneList |-> GeneList, pvalues |-> tensor]
         \/ \E table \in CpbTables :
              uns = [geneList |-> GeneList, pvalues |-> tensor,
                     cpb_results |-> table]
    /\ obs_names = ObsNames(BicCells)
    /\ alpha \in {1, 10}
    /\ cell_threshold \in {1, 2}
    /\ cpb_results = <<>>
    /\ pp_pvalues = <<>>
    /\ pval_matrix = <<>>
    /\ bic_n = 0
    /\ las_input = <<>>
    /\ biclustering = <<>>
    /\ df_results = <<>>
    /\ original_length = 0

SpecBic == InitBic /\ [][NextBic]_vars

====
